---- MODULE Spec2Model ----
(***************************************************************************)
(* Model of commit_generator.py: one process run, from module startup      *)
(* (credential check) through main(): diff collection, message generation, *)
(* prefix assembly, clipboard write, display, confirmation and commit.     *)
(* Text values are sequences of one-character strings.                     *)
(***************************************************************************)
EXTENDS Integers, Sequences, FiniteSets, TLC

\* ---------------------------------------------------------------- bounds
MaxDiffLen == 2
MaxMsgLen  == 3
MaxLineLen == 2
MaxArgs    == 2

\* ------------------------------------------------------------- alphabets
Whitespace   == {" ", "\t"}
DiffAlphabet == {" ", "d"}
MsgAlphabet  == {" ", "\t", "m"}
LineAlphabet == {" ", "y", "Y", "n"}
ArgTokens    == {<<>>, <<"p">>, <<"\t">>}

SeqsUpTo(S, n) == UNION {[1..k -> S] : k \in 0..n}

\* ------------------------------------------------------- string helpers
RECURSIVE lstrip(_)
lstrip(s) == IF s = <<>> THEN s
             ELSE IF Head(s) \in Whitespace THEN lstrip(Tail(s)) ELSE s

RECURSIVE rstrip(_)
rstrip(s) == IF s = <<>> THEN s
             ELSE IF s[Len(s)] \in Whitespace
                  THEN rstrip(SubSeq(s, 1, Len(s) - 1)) ELSE s

strip(s) == rstrip(lstrip(s))

lower_char(c) == IF c = "Y" THEN "y" ELSE IF c = "N" THEN "n" ELSE c

\* lower() left out of the normalisation
lower_identity(s) == s

lower(s) == [i \in 1..Len(s) |-> lower_char(s[i])]

RECURSIVE join(_)
join(args) == IF args = <<>> THEN <<>>
              ELSE IF Len(args) = 1 THEN args[1]
              ELSE args[1] \o <<" ">> \o join(Tail(args))

\* ------------------------------------------------------ fixed literals
\* line 60
NoChangesFound ==
    <<"N", "o", " ", "c", "h", "a", "n", "g", "e", "s", " ", "f", "o", "u",
      "n", "d", ".">>

\* line 78
FailedToGenerate ==
    <<"F", "a", "i", "l", "e", "d", " ", "t", "o", " ", "g", "e", "n", "e",
      "r", "a", "t", "e", " ", "a", " ", "c", "o", "m", "m", "i", "t", " ",
      "m", "e", "s", "s", "a", "g", "e", ".">>

\* line 81
ErrorGenerating ==
    <<"E", "r", "r", "o", "r", " ", "g", "e", "n", "e", "r", "a", "t", "i",
      "n", "g", " ", "c", "o", "m", "m", "i", "t", " ", "m", "e", "s", "s",
      "a", "g", "e", ".">>

\* line 144
AffirmativeToken == <<"y">>

\* ----------------------------------------------------- input universes
ApiKeys     == {"None", "", "sk"}
Argvs       == SeqsUpTo(ArgTokens, MaxArgs)
DiffStdouts == SeqsUpTo(DiffAlphabet, MaxDiffLen)
Contents    == SeqsUpTo(MsgAlphabet, MaxMsgLen)
ExtraLines  == {<<"y", "e", "s">>, <<"N">>}
Lines       == SeqsUpTo(LineAlphabet, MaxLineLen) \cup ExtraLines

VARIABLES
    pc,                        \* position in the script
    status,                    \* "running", "ok", "exit1", "unhandled"
    raised,                    \* exception propagating out of main, or "none"
    api_key,                   \* os.getenv("OPENAI_API_KEY")
    argv,                      \* sys.argv[1:]
    diff,
    response,                  \* what the completion request produced
    generated_commit_message,
    commit_prefix,
    final_commit_message,
    committed_message,         \* argument handed to 'git commit -m'
    clipboard,                 \* text held by the system clipboard
    displayed,                 \* text printed between the two rules
    line,                      \* raw line returned by input()
    confirm,
    events                     \* side effects, in order of occurrence

vars == <<pc, status, raised, api_key, argv, diff, response,
          generated_commit_message,
          commit_prefix, final_commit_message, committed_message, line,
          confirm, events, clipboard, displayed>>

Emit(e) == events' = Append(events, e)
Emit2(e, f) == events' = events \o <<e, f>>

Count(e) == Cardinality({i \in 1..Len(events) : events[i] = e})
Occurred(e) == \E i \in 1..Len(events) : events[i] = e

Init ==
    /\ pc = "startup"
    /\ status = "running"
    /\ raised = "none"
    /\ api_key \in ApiKeys
    /\ argv \in Argvs
    /\ diff = <<>>
    /\ response = "none"
    /\ generated_commit_message = <<>>
    /\ commit_prefix = <<>>
    /\ final_commit_message = <<>>
    /\ committed_message = <<>>
    /\ line = <<>>
    /\ confirm = <<>>
    /\ events = <<>>
    /\ clipboard = <<>>
    /\ displayed = <<>>

\* the credential check without its exit(1)
Startup_continues ==
    /\ pc = "startup"
    /\ IF api_key \in {"None", ""}
       THEN Emit("print_key_not_found")
       ELSE UNCHANGED events
    /\ pc' = "get_diff"
    /\ UNCHANGED <<status, raised, api_key, argv, diff, response,
                   generated_commit_message, commit_prefix,
                   final_commit_message, committed_message, line, confirm>>
    /\ UNCHANGED <<clipboard, displayed>>

\* Module level, lines 28-37: load the credential; exit(1) when it is missing.
Startup ==
    /\ pc = "startup"
    /\ IF api_key \in {"None", ""}
       THEN /\ Emit("print_key_not_found")
            /\ status' = "exit1"
            /\ pc' = "exited"
       ELSE /\ pc' = "get_diff"
            /\ UNCHANGED <<status, events>>
    /\ UNCHANGED <<raised, api_key, argv, diff, response,
                   generated_commit_message,
                   commit_prefix, final_commit_message, committed_message,
                   line, confirm>>
    /\ UNCHANGED <<clipboard, displayed>>

\* the except branch returning the error text instead of ""
get_git_diff_returns_error_text(outcome, stdout) ==
    /\ pc = "get_diff"
    /\ CASE outcome = "ok" ->
              /\ diff' = strip(stdout)
              /\ Emit("run_git_diff")
              /\ pc' = "check_diff"
              /\ UNCHANGED <<status, raised>>
         [] outcome = "nonzero" ->
              /\ diff' = <<"d">>
              /\ Emit2("run_git_diff", "print_error_obtaining_diffs")
              /\ pc' = "check_diff"
              /\ UNCHANGED <<status, raised>>
         [] outcome = "nolaunch" ->
              /\ Emit("git_diff_not_launched")
              /\ raised' = "FileNotFoundError"
              /\ status' = "unhandled"
              /\ pc' = "exited"
              /\ UNCHANGED diff
    /\ UNCHANGED <<api_key, argv, response, generated_commit_message,
                   commit_prefix, final_commit_message, committed_message,
                   line, confirm>>
    /\ UNCHANGED <<clipboard, displayed>>

\* get_git_diff(), lines 40-54.  outcome is what subprocess.run does:
\* "ok" (exit 0, stdout captured), "nonzero" (CalledProcessError) or
\* "nolaunch" (the tool cannot be started: FileNotFoundError, not caught).
get_git_diff(outcome, stdout) ==
    /\ pc = "get_diff"
    /\ CASE outcome = "ok" ->
              /\ diff' = strip(stdout)
              /\ Emit("run_git_diff")
              /\ pc' = "check_diff"
              /\ UNCHANGED <<status, raised>>
         [] outcome = "nonzero" ->
              /\ diff' = <<>>
              /\ Emit2("run_git_diff", "print_error_obtaining_diffs")
              /\ pc' = "check_diff"
              /\ UNCHANGED <<status, raised>>
         [] outcome = "nolaunch" ->
              /\ Emit("git_diff_not_launched")
              /\ raised' = "FileNotFoundError"
              /\ status' = "unhandled"
              /\ pc' = "exited"
              /\ UNCHANGED diff
    /\ UNCHANGED <<api_key, argv, response, generated_commit_message,
                   commit_prefix, final_commit_message, committed_message,
                   line, confirm>>
    /\ UNCHANGED <<clipboard, displayed>>

\* main(), line 115
MainGetDiff ==
    \E outcome \in {"ok", "nonzero", "nolaunch"} :
        \E stdout \in (IF outcome = "ok" THEN DiffStdouts ELSE {<<>>}) :
            get_git_diff(outcome, stdout)

\* the empty-diff check without its return
MainCheckDiff_no_return ==
    /\ pc = "check_diff"
    /\ IF diff = <<>>
       THEN Emit("print_no_changes")
       ELSE UNCHANGED events
    /\ pc' = "generate"
    /\ UNCHANGED <<status, raised, api_key, argv, diff, response,
                   generated_commit_message, commit_prefix,
                   final_commit_message, committed_message, line, confirm>>
    /\ UNCHANGED <<clipboard, displayed>>

\* main(), lines 116-118
MainCheckDiff ==
    /\ pc = "check_diff"
    /\ IF diff = <<>>
       THEN /\ Emit("print_no_changes")
            /\ status' = "ok"
            /\ pc' = "done"
       ELSE /\ pc' = "generate"
            /\ UNCHANGED <<status, events>>
    /\ UNCHANGED <<raised, api_key, argv, diff, response,
                   generated_commit_message,
                   commit_prefix, final_commit_message, committed_message,
                   line, confirm>>
    /\ UNCHANGED <<clipboard, displayed>>

\* a second request issued from the except branch
generate_commit_message_retry(outcome, content) ==
    /\ pc = "generate"
    /\ IF diff = <<>>
       THEN /\ generated_commit_message' = NoChangesFound
            /\ UNCHANGED <<response, events>>
       ELSE /\ response' = outcome
            /\ IF outcome = "ok"
               THEN /\ generated_commit_message' =
                          (IF strip(content) = <<>> THEN FailedToGenerate
                           ELSE strip(content))
                    /\ Emit("request_completion")
               ELSE /\ generated_commit_message' = ErrorGenerating
                    /\ events' = events \o <<"request_completion",
                                              "print_error_generating",
                                              "request_completion">>
    /\ pc' = "assemble"
    /\ UNCHANGED <<status, raised, api_key, argv, diff, commit_prefix,
                   final_commit_message, committed_message, line, confirm>>
    /\ UNCHANGED <<clipboard, displayed>>

\* line 78 without its 'or' fallback
generate_commit_message_no_fallback(outcome, content) ==
    /\ pc = "generate"
    /\ IF diff = <<>>
       THEN /\ generated_commit_message' = NoChangesFound
            /\ UNCHANGED <<response, events>>
       ELSE /\ response' = outcome
            /\ IF outcome = "ok"
               THEN /\ generated_commit_message' = strip(content)
                    /\ Emit("request_completion")
               ELSE /\ generated_commit_message' = ErrorGenerating
                    /\ Emit2("request_completion", "print_error_generating")
    /\ pc' = "assemble"
    /\ UNCHANGED <<status, raised, api_key, argv, diff, commit_prefix,
                   final_commit_message, committed_message, line, confirm>>
    /\ UNCHANGED <<clipboard, displayed>>

\* generate_commit_message(diff), lines 57-81.  outcome is what the
\* completion request produced: "ok" (first choice carries text content),
\* "none_content" (first choice has content None), "no_choices" (empty
\* choices list) or "error" (create() raised).  Everything but "ok" ends in
\* the 'except Exception' branch.
generate_commit_message(outcome, content) ==
    /\ pc = "generate"
    /\ IF diff = <<>>
       THEN /\ generated_commit_message' = NoChangesFound
            /\ UNCHANGED <<response, events>>
       ELSE /\ response' = outcome
            /\ IF outcome = "ok"
               THEN /\ generated_commit_message' =
                          (IF strip(content) = <<>> THEN FailedToGenerate
                           ELSE strip(content))
                    /\ Emit("request_completion")
               ELSE /\ generated_commit_message' = ErrorGenerating
                    /\ Emit2("request_completion", "print_error_generating")
    /\ pc' = "assemble"
    /\ UNCHANGED <<status, raised, api_key, argv, diff, commit_prefix,
                   final_commit_message, committed_message, line, confirm>>
    /\ UNCHANGED <<clipboard, displayed>>

\* main(), line 120
MainGenerate ==
    \E outcome \in {"ok", "none_content", "no_choices", "error"} :
        \E content \in (IF outcome = "ok" THEN Contents ELSE {<<>>}) :
            generate_commit_message(outcome, content)

\* the prefix joined to the message with a space instead of the tab
MainAssemble_space_separator ==
    /\ pc = "assemble"
    /\ commit_prefix' = (IF Len(argv) > 0 THEN join(argv) ELSE <<>>)
    /\ final_commit_message' =
          (IF commit_prefix' # <<>>
           THEN commit_prefix' \o <<" ">> \o generated_commit_message
           ELSE generated_commit_message)
    /\ pc' = "clipboard"
    /\ UNCHANGED <<status, raised, api_key, argv, diff, response,
                   generated_commit_message, committed_message, line,
                   confirm, events>>
    /\ UNCHANGED <<clipboard, displayed>>

\* the two parts of the f-string in the other order
MainAssemble_swapped ==
    /\ pc = "assemble"
    /\ commit_prefix' = (IF Len(argv) > 0 THEN join(argv) ELSE <<>>)
    /\ final_commit_message' =
          (IF commit_prefix' # <<>>
           THEN generated_commit_message \o <<"\t">> \o commit_prefix'
           ELSE generated_commit_message)
    /\ pc' = "clipboard"
    /\ UNCHANGED <<status, raised, api_key, argv, diff, response,
                   generated_commit_message, committed_message, line,
                   confirm, events>>
    /\ UNCHANGED <<clipboard, displayed>>

\* main(), lines 122-129
MainAssemble ==
    /\ pc = "assemble"
    /\ commit_prefix' = (IF Len(argv) > 0 THEN join(argv) ELSE <<>>)
    /\ final_commit_message' =
          (IF commit_prefix' # <<>>
           THEN commit_prefix' \o <<"\t">> \o generated_commit_message
           ELSE generated_commit_message)
    /\ pc' = "clipboard"
    /\ UNCHANGED <<status, raised, api_key, argv, diff, response,
                   generated_commit_message, committed_message, line,
                   confirm, events>>
    /\ UNCHANGED <<clipboard, displayed>>

\* the message printed before the clipboard is written
MainClipboard_after_display ==
    /\ pc = "clipboard"
    /\ displayed' = final_commit_message
    /\ \E outcome \in {"ok", "fail"} :
          IF outcome = "ok"
          THEN /\ clipboard' = final_commit_message
               /\ events' = events \o <<"print_final_message",
                                         "clipboard_copy", "print_copied">>
               /\ pc' = "confirm"
               /\ UNCHANGED <<status, raised>>
          ELSE /\ Emit2("print_final_message", "clipboard_copy_failed")
               /\ raised' = "PyperclipException"
               /\ status' = "unhandled"
               /\ pc' = "exited"
               /\ UNCHANGED clipboard
    /\ UNCHANGED <<api_key, argv, diff, response, generated_commit_message,
                   commit_prefix, final_commit_message, committed_message,
                   line, confirm>>

\* main(), lines 131-133.  pyperclip.copy either writes the clipboard or
\* raises PyperclipException (no copy mechanism); nothing catches it.
MainClipboard ==
    /\ pc = "clipboard"
    /\ \E outcome \in {"ok", "fail"} :
          IF outcome = "ok"
          THEN /\ clipboard' = final_commit_message
               /\ Emit2("clipboard_copy", "print_copied")
               /\ pc' = "display"
               /\ UNCHANGED <<status, raised>>
          ELSE /\ Emit("clipboard_copy_failed")
               /\ raised' = "PyperclipException"
               /\ status' = "unhandled"
               /\ pc' = "exited"
               /\ UNCHANGED clipboard
    /\ UNCHANGED <<api_key, argv, diff, response, generated_commit_message,
                   commit_prefix, final_commit_message, committed_message,
                   line, confirm, displayed>>

\* main(), lines 135-139
MainDisplay ==
    /\ pc = "display"
    /\ displayed' = final_commit_message
    /\ Emit("print_final_message")
    /\ pc' = "confirm"
    /\ UNCHANGED <<status, raised, api_key, argv, diff, response,
                   generated_commit_message, commit_prefix,
                   final_commit_message, committed_message, line, confirm,
                   clipboard>>

\* main(), lines 141-143.  input() returns a line, or raises EOFError when
\* standard input is closed; nothing catches it.
MainConfirm ==
    /\ pc = "confirm"
    /\ \/ \E l \in Lines :
             /\ line' = l
             /\ confirm' = lower(strip(l))
             /\ Emit("read_input")
             /\ pc' = "decide"
             /\ UNCHANGED <<status, raised>>
       \/ /\ Emit("read_input_eof")
          /\ raised' = "EOFError"
          /\ status' = "unhandled"
          /\ pc' = "exited"
          /\ UNCHANGED <<line, confirm>>
    /\ UNCHANGED <<api_key, argv, diff, response, generated_commit_message,
                   commit_prefix, final_commit_message, committed_message>>
    /\ UNCHANGED <<clipboard, displayed>>

\* the branch testing for a refusal instead of an acceptance
MainDecide_unless_n ==
    /\ pc = "decide"
    /\ IF confirm # <<"n">>
       THEN /\ pc' = "commit"
            /\ UNCHANGED <<status, events>>
       ELSE /\ Emit("print_commit_cancelled")
            /\ status' = "ok"
            /\ pc' = "done"
    /\ UNCHANGED <<raised, api_key, argv, diff, response,
                   generated_commit_message, commit_prefix,
                   final_commit_message, committed_message, line, confirm>>
    /\ UNCHANGED <<clipboard, displayed>>

\* the branch refusing to commit a fallback literal
MainDecide_refuses_fallback ==
    /\ pc = "decide"
    /\ IF /\ confirm = AffirmativeToken
          /\ generated_commit_message
                \notin {ErrorGenerating, FailedToGenerate}
       THEN /\ pc' = "commit"
            /\ UNCHANGED <<status, events>>
       ELSE /\ Emit("print_commit_cancelled")
            /\ status' = "ok"
            /\ pc' = "done"
    /\ UNCHANGED <<raised, api_key, argv, diff, response,
                   generated_commit_message, commit_prefix,
                   final_commit_message, committed_message, line, confirm>>
    /\ UNCHANGED <<clipboard, displayed>>

\* main(), lines 144-147: the branch on the normalised answer.
MainDecide ==
    /\ pc = "decide"
    /\ IF confirm = AffirmativeToken
       THEN /\ pc' = "commit"
            /\ UNCHANGED <<status, events>>
       ELSE /\ Emit("print_commit_cancelled")
            /\ status' = "ok"
            /\ pc' = "done"
    /\ UNCHANGED <<raised, api_key, argv, diff, response,
                   generated_commit_message, commit_prefix,
                   final_commit_message, committed_message, line, confirm>>
    /\ UNCHANGED <<clipboard, displayed>>

\* the except branch running the commit a second time
make_git_commit_retry(message, outcome) ==
    /\ pc = "commit"
    /\ committed_message' = message
    /\ CASE outcome = "ok" ->
              /\ Emit2("run_git_commit", "print_commit_ok")
              /\ status' = "ok"
              /\ pc' = "done"
              /\ UNCHANGED raised
         [] outcome = "nonzero" ->
              /\ events' = events \o <<"run_git_commit", "run_git_commit",
                                        "print_commit_error">>
              /\ status' = "ok"
              /\ pc' = "done"
              /\ UNCHANGED raised
         [] outcome = "nolaunch" ->
              /\ Emit("git_commit_not_launched")
              /\ raised' = "FileNotFoundError"
              /\ status' = "unhandled"
              /\ pc' = "exited"
    /\ UNCHANGED <<api_key, argv, diff, response, generated_commit_message,
                   commit_prefix, final_commit_message, line, confirm>>
    /\ UNCHANGED <<clipboard, displayed>>

\* make_git_commit(message), lines 84-90, called from line 145.  outcome is
\* what subprocess.run does: "ok", "nonzero" (CalledProcessError, caught) or
\* "nolaunch" (FileNotFoundError, not caught).
make_git_commit(message, outcome) ==
    /\ pc = "commit"
    /\ committed_message' = message
    /\ CASE outcome = "ok" ->
              /\ Emit2("run_git_commit", "print_commit_ok")
              /\ status' = "ok"
              /\ pc' = "done"
              /\ UNCHANGED raised
         [] outcome = "nonzero" ->
              /\ Emit2("run_git_commit", "print_commit_error")
              /\ status' = "ok"
              /\ pc' = "done"
              /\ UNCHANGED raised
         [] outcome = "nolaunch" ->
              /\ Emit("git_commit_not_launched")
              /\ raised' = "FileNotFoundError"
              /\ status' = "unhandled"
              /\ pc' = "exited"
    /\ UNCHANGED <<api_key, argv, diff, response, generated_commit_message,
                   commit_prefix, final_commit_message, line, confirm>>
    /\ UNCHANGED <<clipboard, displayed>>

\* the commit given the generated text without the prefix
MainCommit_passes_generated ==
    \E outcome \in {"ok", "nonzero", "nolaunch"} :
        make_git_commit(generated_commit_message, outcome)

\* main(), line 145
MainCommit ==
    \E outcome \in {"ok", "nonzero", "nolaunch"} :
        make_git_commit(final_commit_message, outcome)

Next ==
    \/ Startup
    \/ MainGetDiff
    \/ MainCheckDiff
    \/ MainGenerate
    \/ MainAssemble
    \/ MainClipboard
    \/ MainDisplay
    \/ MainConfirm
    \/ MainDecide
    \/ MainCommit

Spec == Init /\ [][Next]_vars

\* The steps that neither block nor wait on the outside world always run on.
LiveSpec ==
    /\ Spec
    /\ WF_vars(Startup)
    /\ WF_vars(MainCheckDiff)
    /\ WF_vars(MainAssemble)
    /\ WF_vars(MainDisplay)
    /\ WF_vars(MainDecide)

\* ------------------------------------------------------ derived notions
Terminated == status # "running"

KeyMissing == api_key \in {"None", ""}

\* get_git_diff() returned a value to main
DiffCollected == Occurred("run_git_diff")

\* make_git_commit() was called
CommitInvoked ==
    Occurred("run_git_commit") \/ Occurred("git_commit_not_launched")

CommitInvocations ==
    Count("run_git_commit") + Count("git_commit_not_launched")

ClipboardTouched ==
    Occurred("clipboard_copy") \/ Occurred("clipboard_copy_failed")

InputTouched == Occurred("read_input") \/ Occurred("read_input_eof")

Last(q) == q[Len(q)]

IndexOf(e) == CHOOSE i \in 1..Len(events) : events[i] = e

\* whitespace, then one y or Y, then whitespace
IsAffirmativeLine(l) ==
    \E i \in 1..Len(l) :
        /\ l[i] \in {"y", "Y"}
        /\ \A j \in 1..Len(l) : j # i => l[j] \in Whitespace

\* ---------------------------------------------------------------- C1
\* C1: make_git_commit is invoked if and only if the confirmation read
\* returned the affirmative answer: a commit invocation is always preceded
\* by a read of input whose normalised value is "y", and a run that read
\* "y" and has moved past the commit step has invoked the commit.
C1_CommitIffAffirmative ==
    /\ CommitInvoked =>
          /\ Occurred("read_input")
          /\ confirm = AffirmativeToken
          /\ \A i \in 1..Len(events) :
                events[i] \in {"run_git_commit", "git_commit_not_launched"}
                    => IndexOf("read_input") < i
    /\ (Occurred("read_input") /\ confirm = AffirmativeToken
            /\ pc \in {"done", "exited"}) => CommitInvoked
    /\ (Occurred("read_input") /\ confirm # AffirmativeToken)
            => (~CommitInvoked /\ pc # "commit")

C1_Witness ==
    /\ Occurred("run_git_commit")
    /\ confirm = AffirmativeToken
    /\ pc = "done"

\* ---------------------------------------------------------------- C2
\* C2: once an empty diff has been collected, no generation request, no
\* clipboard write, no confirmation read and no commit ever happens, and the
\* run ends normally right after the 'no changes' notice.
EmptyDiffCollected == DiffCollected /\ diff = <<>>

C2_EmptyDiffQuiet ==
    EmptyDiffCollected =>
        /\ ~Occurred("request_completion")
        /\ ~ClipboardTouched
        /\ ~InputTouched
        /\ ~CommitInvoked
        /\ pc \in {"check_diff", "done"}
        /\ pc = "done" => /\ status = "ok"
                          /\ Last(events) = "print_no_changes"

C2_EmptyDiffEndsEarly ==
    /\ []C2_EmptyDiffQuiet
    /\ (EmptyDiffCollected ~> (pc = "done" /\ Occurred("print_no_changes")))

C2_Witness ==
    /\ EmptyDiffCollected
    /\ ~Occurred("print_error_obtaining_diffs")
    /\ pc = "done"
    /\ Last(events) = "print_no_changes"

\* ---------------------------------------------------------------- C3
\* C3: with the credential absent, the run prints the diagnostic and exits
\* with status 1 as its first and only step: no diff command, no generation
\* request, no clipboard write, no confirmation read, no commit.
C3_MissingKeyExitsFirst ==
    KeyMissing =>
        /\ events \in {<<>>, <<"print_key_not_found">>}
        /\ pc \in {"startup", "exited"}
        /\ pc = "exited" => /\ status = "exit1"
                            /\ events = <<"print_key_not_found">>

C3_Witness ==
    /\ KeyMissing
    /\ pc = "exited"
    /\ status = "exit1"

\* ---------------------------------------------------------------- C4
\* C4: a run with a non-empty diff issues exactly one generation request:
\* never more than one at any time, and exactly one once the generation
\* step is behind it, whatever the request produced.
C4_ExactlyOneRequest ==
    /\ Count("request_completion") <= 1
    /\ (DiffCollected /\ diff # <<>> /\ pc \notin {"check_diff", "generate"})
          => Count("request_completion") = 1
    /\ (DiffCollected /\ diff # <<>> /\ Terminated)
          => Count("request_completion") = 1

C4_Witness ==
    /\ DiffCollected
    /\ diff # <<>>
    /\ response = "error"
    /\ Terminated
    /\ Count("request_completion") = 1

C6_ClipboardFailureNotFatal ==
    Occurred("clipboard_copy_failed") =>
        /\ status # "unhandled"
        /\ Terminated => Occurred("print_final_message")

\* ---------------------------------------------------------------- C7
\* C7: no failure of the subprocess layer (diff or commit, failure to
\* launch the tool included) or of the network layer leaves the run as an
\* unhandled exception.
SubprocessOrNetworkFailure == {"FileNotFoundError"}

C7_NoUnhandledSubprocessFailure ==
    ~(status = "unhandled" /\ raised \in SubprocessOrNetworkFailure)

\* ---------------------------------------------------------------- C8
\* C8: when the diff command exits non-zero, get_git_diff reports it and
\* returns "", and the run is then the run of an empty diff: the notice,
\* a normal end, no generation request, no commit.
C8_DiffFailureIsNoChanges ==
    Occurred("print_error_obtaining_diffs") =>
        /\ diff = <<>>
        /\ SubSeq(events, 1, 2)
              = <<"run_git_diff", "print_error_obtaining_diffs">>
        /\ ~Occurred("request_completion")
        /\ ~CommitInvoked
        /\ pc \in {"check_diff", "done"}
        /\ pc = "done" =>
              /\ status = "ok"
              /\ Tail(Tail(events)) = <<"print_no_changes">>

C8_Witness ==
    /\ Occurred("print_error_obtaining_diffs")
    /\ pc = "done"
    /\ Last(events) = "print_no_changes"

\* ---------------------------------------------------------------- C9
\* C9: the commit command is invoked at most once per run; when it exits
\* non-zero the failure is printed, nothing is run again and the run ends
\* normally.
C9_CommitAtMostOnce ==
    /\ CommitInvocations <= 1
    /\ Occurred("print_commit_error") =>
          /\ Count("run_git_commit") = 1
          /\ Last(events) = "print_commit_error"
          /\ events[Len(events) - 1] = "run_git_commit"
          /\ pc = "done"
          /\ status = "ok"

C9_Witness ==
    /\ Occurred("print_commit_error")
    /\ pc = "done"
    /\ status = "ok"

\* --------------------------------------------------------------- C10
\* C10: the branch taken after the read is the commit branch exactly when
\* the input line is optional whitespace, one "y" or "Y", optional
\* whitespace; the empty line, "n", "N" and "yes" take the cancel branch.
Decided == Occurred("read_input") /\ pc # "decide"

DecisionTrue == pc = "commit" \/ CommitInvoked

C10_AffirmativeExactlyY ==
    /\ Occurred("read_input") =>
          (confirm = AffirmativeToken <=> IsAffirmativeLine(line))
    /\ Decided => (DecisionTrue <=> IsAffirmativeLine(line))
    /\ (Decided /\ line \in {<<>>, <<"n">>, <<"N">>, <<"y", "e", "s">>})
          => (~DecisionTrue /\ Occurred("print_commit_cancelled"))

C10_Witness ==
    /\ Decided
    /\ line = <<" ", "Y">>
    /\ DecisionTrue

\* --------------------------------------------------------------- C11
\* main has run lines 122-129
Assembled ==
    \/ pc \in {"clipboard", "display", "confirm", "decide", "commit"}
    \/ pc \in {"done", "exited"} /\ Occurred("request_completion")

\* C11: once assembled, the FinalMessage is the generated message itself
\* when the prefix is empty, and otherwise is, character by character, the
\* prefix, then one tab, then the generated message; assembly is enabled
\* in every state that waits for it.
C11_AssemblyRule ==
    /\ pc = "assemble" => ENABLED MainAssemble
    /\ Assembled =>
          /\ commit_prefix = <<>>
                => final_commit_message = generated_commit_message
          /\ commit_prefix # <<>> =>
                /\ Len(final_commit_message)
                      = Len(commit_prefix) + 1 + Len(generated_commit_message)
                /\ \A i \in 1..Len(commit_prefix) :
                      final_commit_message[i] = commit_prefix[i]
                /\ final_commit_message[Len(commit_prefix) + 1] = "\t"
                /\ \A j \in 1..Len(generated_commit_message) :
                      final_commit_message[Len(commit_prefix) + 1 + j]
                          = generated_commit_message[j]

C11_Witness ==
    /\ Assembled
    /\ commit_prefix = <<"p">>
    /\ generated_commit_message = <<"m">>
    /\ final_commit_message = <<"p", "\t", "m">>

\* --------------------------------------------------------------- C12
HasTab(s) == \E i \in 1..Len(s) : s[i] = "\t"

FirstTab(s) == CHOOSE i \in 1..Len(s) :
                  /\ s[i] = "\t"
                  /\ \A j \in 1..(i - 1) : s[j] # "\t"

\* the two parts around the first tab of s (the whole of s and "" when s
\* has no tab)
SplitAtFirstTab(s) ==
    IF HasTab(s)
    THEN <<SubSeq(s, 1, FirstTab(s) - 1), SubSeq(s, FirstTab(s) + 1, Len(s))>>
    ELSE <<s, <<>>>>

\* C12 as stated: for every non-empty prefix, splitting the FinalMessage
\* at the separator gives back the prefix and the generated message.
C12_SplitRecoversParts ==
    (Assembled /\ commit_prefix # <<>>) =>
        SplitAtFirstTab(final_commit_message)
            = <<commit_prefix, generated_commit_message>>

\* C12 amended: for every non-empty prefix that contains no tab, splitting
\* the FinalMessage at its first tab gives back the prefix and the
\* generated message, whether or not the generated message contains tabs.
C12_SplitRecoversTabFreePrefix ==
    (Assembled /\ commit_prefix # <<>> /\ ~HasTab(commit_prefix)) =>
        SplitAtFirstTab(final_commit_message)
            = <<commit_prefix, generated_commit_message>>

C12_Witness ==
    /\ Assembled
    /\ commit_prefix = <<"p", " ", "p">>
    /\ generated_commit_message = <<"m", "\t", "m">>
    /\ SplitAtFirstTab(final_commit_message)
          = <<commit_prefix, generated_commit_message>>

\* --------------------------------------------------------------- C13
InputIndex ==
    CHOOSE i \in 1..Len(events) :
        events[i] \in {"read_input", "read_input_eof"}

\* C13: the clipboard write, the display and the read of input each happen
\* at most once and in that order, and a commit invocation comes only
\* after the read; a run waiting at the gate has written and displayed.
C13_SideEffectOrder ==
    /\ Count("clipboard_copy") <= 1
    /\ Count("print_final_message") <= 1
    /\ Count("read_input") + Count("read_input_eof") <= 1
    /\ Occurred("print_final_message") =>
          /\ Occurred("clipboard_copy")
          /\ IndexOf("clipboard_copy") < IndexOf("print_final_message")
    /\ InputTouched =>
          /\ Occurred("print_final_message")
          /\ IndexOf("print_final_message") < InputIndex
    /\ CommitInvoked =>
          /\ Occurred("read_input")
          /\ \A i \in 1..Len(events) :
                events[i] \in {"run_git_commit", "git_commit_not_launched"}
                    => IndexOf("read_input") < i
    /\ pc = "confirm" => /\ Occurred("clipboard_copy")
                         /\ Occurred("print_final_message")

C13_Witness ==
    /\ pc = "done"
    /\ events = <<"run_git_diff", "request_completion", "clipboard_copy",
                  "print_copied", "print_final_message", "read_input",
                  "run_git_commit", "print_commit_ok">>

\* --------------------------------------------------------------- C14
\* C14: the text on the clipboard and the text displayed are the
\* FinalMessage, and the message handed to the commit command is that same
\* text: nothing changes it between assembly and the commit.
C14_CommittedIsFinalMessage ==
    /\ Occurred("clipboard_copy") => clipboard = final_commit_message
    /\ Occurred("print_final_message") => displayed = final_commit_message
    /\ CommitInvoked =>
          /\ committed_message = final_commit_message
          /\ committed_message = clipboard
          /\ committed_message = displayed

C14_Witness ==
    /\ Occurred("run_git_commit")
    /\ commit_prefix # <<>>
    /\ committed_message = displayed
    /\ committed_message = clipboard
    /\ committed_message # generated_commit_message

\* --------------------------------------------------------------- C15
\* C15: while the run waits for the confirmation, and from then on, the
\* FinalMessage is not empty, whatever the diff, the prefix and the outcome
\* of the generation request.
C15_FinalMessageNonEmpty ==
    (pc = "confirm" \/ InputTouched) => final_commit_message # <<>>

C15_Witness ==
    /\ pc = "confirm"
    /\ response = "ok"
    /\ commit_prefix = <<>>
    /\ final_commit_message = FailedToGenerate

\* --------------------------------------------------------------- C16
\* C16: a run reads at most one line, and a run that has read its line and
\* ended has ended normally, after exactly one commit attempt when the
\* answer was affirmative and after the cancellation notice otherwise.
C16_OneReadThenNormalEnd ==
    /\ Count("read_input") + Count("read_input_eof") <= 1
    /\ (Occurred("read_input") /\ Terminated) =>
          /\ status = "ok"
          /\ IF confirm = AffirmativeToken
             THEN CommitInvocations = 1
                    /\ ~Occurred("print_commit_cancelled")
             ELSE CommitInvocations = 0
                    /\ Last(events) = "print_commit_cancelled"

\* --------------------------------------------------------------- C17
\* C17: after a request that succeeded the generated message is the
\* trimmed completion text, or "Failed to generate a commit message." when
\* that text is empty after trimming or absent; "Error generating commit
\* message." appears only when the request itself failed.
C17_FallbackLiterals ==
    /\ response = "ok" =>
          \/ generated_commit_message = FailedToGenerate
          \/ /\ generated_commit_message # <<>>
             /\ strip(generated_commit_message) = generated_commit_message
             /\ generated_commit_message # ErrorGenerating
    /\ response = "none_content"
          => generated_commit_message = FailedToGenerate
    /\ (response # "none" /\ generated_commit_message = ErrorGenerating)
          => response = "error"

\* --------------------------------------------------------------- C18
\* C18: whatever the generation request produced, an affirmative answer
\* takes the commit branch and the commit command receives the assembled
\* message, fallback literals included.
C18_CommitIgnoresGenerationOutcome ==
    /\ (Decided /\ confirm = AffirmativeToken) =>
          /\ pc = "commit" \/ CommitInvoked
          /\ ~Occurred("print_commit_cancelled")
    /\ (CommitInvoked /\ response # "ok") =>
          /\ generated_commit_message = ErrorGenerating
          /\ committed_message =
                (IF commit_prefix = <<>> THEN ErrorGenerating
                 ELSE commit_prefix \o <<"\t">> \o ErrorGenerating)
    /\ (CommitInvoked /\ response = "ok") =>
          committed_message =
              (IF commit_prefix = <<>> THEN generated_commit_message
               ELSE commit_prefix \o <<"\t">> \o generated_commit_message)

C18_Witness ==
    /\ response = "error"
    /\ Occurred("run_git_commit")
    /\ confirm = AffirmativeToken
    /\ committed_message = ErrorGenerating
====
